---- MODULE Spec2Model ----
(***************************************************************************)
(* Access-control and identity-invite core of the forum application        *)
(* (src/app.py): role-gated registration with creator / journalist invite  *)
(* redemption, password + one-time-code login, logout, and the two access  *)
(* gates login_required and moderator_required.                            *)
(*                                                                         *)
(* Text is modelled as sequences of one-character strings so that          *)
(* str.strip() and str.split("@") are computed as Python computes them.    *)
(* Every client (browser) carries its own signed session cookie and has at *)
(* most one request in flight; requests of different clients interleave at *)
(* the database accesses of their handlers.                                *)
(***************************************************************************)
EXTENDS Integers, Sequences, FiniteSets, TLC

(***************************************************************************)
(* Bounds of the model                                                     *)
(***************************************************************************)
\* last time step the clock reaches
MaxStep == 3
\* number of JournalistInvite rows a moderator may create
MaxInvites == 1

(***************************************************************************)
(* Text helpers                                                            *)
(***************************************************************************)
\* Python None (never equal to a text, whose elements are single characters)
None == <<"None">>

\* the text s without its first character
Tail1(s) == SubSeq(s, 2, Len(s))

\* the text s without its last character
Front1(s) == SubSeq(s, 1, Len(s) - 1)

RECURSIVE LStrip(_)
\* str.lstrip(): leading whitespace removed
LStrip(s) == IF s # <<>> /\ Head(s) = " " THEN LStrip(Tail1(s)) ELSE s

RECURSIVE RStrip(_)
\* str.rstrip(): trailing whitespace removed
RStrip(s) == IF s # <<>> /\ s[Len(s)] = " " THEN RStrip(Front1(s)) ELSE s

\* str.strip()
Strip(s) == RStrip(LStrip(s))

RECURSIVE Split(_)
\* str.split("@"): the pieces of s between the "@" characters
Split(s) ==
    IF \A i \in 1..Len(s) : s[i] # "@"
    THEN <<s>>
    ELSE LET i == CHOOSE k \in 1..Len(s) :
                      s[k] = "@" /\ \A j \in 1..(k - 1) : s[j] # "@"
         IN  <<SubSeq(s, 1, i - 1)>> \o Split(SubSeq(s, i + 1, Len(s)))

\* python's parts[-1]
LastOf(parts) == parts[Len(parts)]

\* bool(value) of a form field: the empty text is false
Truthy(s) == s # <<>>

\* `value or None`
OrNone(s) == IF Truthy(s) THEN s ELSE None

(***************************************************************************)
(* Library functions (werkzeug.security, pyotp)                            *)
(***************************************************************************)
\* generate_password_hash: a one-way hash of the password
GeneratePasswordHash(pw) == <<"pbkdf2">> \o pw

\* check_password_hash(hash, password)
CheckPasswordHash(h, pw) == h = GeneratePasswordHash(pw)

\* number of distinct one-time codes
CodeMod == 10

\* pyotp.TOTP(secret).at(t): the code of time step t
Totp(secret, t) == (7 * secret + 3 * t) % CodeMod

\* pyotp.TOTP(secret).verify(code, valid_window=w) at time step t
TotpVerify(secret, code, t, w) ==
    \E i \in (0 - w)..w : code = <<Totp(secret, t + i)>>

(***************************************************************************)
(* Flash messages and redirect targets of the handlers                     *)
(***************************************************************************)
Redirect(msg, target) == [flash |-> msg, to |-> target]

\* render_template(...): a page, no flash message
Render(page) == [flash |-> "", to |-> page]

\* an exception leaving the handler: Flask answers 500
InternalServerError == [flash |-> "", to |-> "500 Internal Server Error"]

\* the last step sent no response
NoResponse == [flash |-> "", to |-> "", client |-> ""]

InvalidRoleOrMissingFields ==
    Redirect("Please provide a username and choose a role.", "register")
DuplicateUsername == Redirect("Username already exists.", "register")
PasswordRequired == Redirect("Password is required.", "register")
DuplicateEmail ==
    Redirect("Email already associated with another account.", "register")
CreatorFieldsRequired ==
    Redirect("Creator email and invite code are required.", "register")
DomainMismatch ==
    Redirect("Creator username must match the email domain.", "register")
InvalidOrUsedCreatorInvite ==
    Redirect("Invalid or already used creator invite code.", "register")
InvalidOrUsedJournalistInvite ==
    Redirect("A valid journalist invite link is required.", "register")
RegistrationSuccessful == Redirect("Registration successful.", "index")
UserNotFound == Redirect("User not found. Please register first.", "login")
InvalidCredentials == Redirect("Invalid credentials.", "login")
InvalidOrMissingCode ==
    Redirect("Invalid or missing authentication code.", "login")
LoggedIn == Redirect("Logged in successfully.", "index")
LoggedOut == Redirect("You have been logged out.", "index")
PleaseLogIn == Redirect("Please log in to continue.", "login")
ModeratorRequired == Redirect("Moderator permissions required.", "index")
InviteCreated ==
    [flash |-> "Journalist invite created. Share the generated link.",
     to |-> "create_journalist_invite.html"]

\* the responses with which register rejects an attempt
RegisterRejections ==
    {InvalidRoleOrMissingFields, DuplicateUsername, PasswordRequired,
     DuplicateEmail, CreatorFieldsRequired, DomainMismatch,
     InvalidOrUsedCreatorInvite, InvalidOrUsedJournalistInvite}

(***************************************************************************)
(* State                                                                   *)
(***************************************************************************)
VARIABLES
    users,      \* rows of User
    cinvites,   \* rows of CreatorInvite
    jinvites,   \* rows of JournalistInvite
    session,    \* client -> session["user_id"] (0: no user id in the session)
    req,        \* client -> the request in flight
    pc,         \* client -> position of the handler serving the request
    frame,      \* client -> local variables of the running register handler
    resp,       \* the response the server sent in the last step, if any
    now         \* current time step of the one-time-code clock

vars == <<users, cinvites, jinvites, session, req, pc, frame, resp, now>>

Clients == {"c1", "c2"}

NoReq == [op |-> "none"]
NoFrame == [otp_secret |-> 0, invite |-> 0]

(***************************************************************************)
(* Inputs of the requests                                                  *)
(***************************************************************************)
Roles == {"reader", "creator", "journalist"}

\* pyotp.random_base32(): the secrets a registration may draw
Secrets == {1, 2}

\* a generator that yields a single secret
OneSecret == {1}

EmailUX == <<"u", "@", "x">>
EmailUXY == <<"u", "@", "x", "@", "y">>
KeyK == <<"k">>
PwP == <<"p">>

\* secrets.token_urlsafe(24): the tokens an invite may draw
Tokens == {<<"t">>, <<"s">>}

\* the fields of a registration form
RegisterForm(username, email, role, password, moderator, key, token) ==
    [op |-> "register", username |-> username, email |-> email, role |-> role,
     password |-> password, is_moderator |-> moderator, creator_key |-> key,
     journalist_token |-> token]

\* every combination of the field values below
AllRegisterForms ==
    {RegisterForm(u, e, r, p, m, k, t) :
        u \in {<<>>, <<"x">>, <<"y">>, <<" ", "x">>},
        e \in {<<>>, EmailUX, EmailUXY},
        r \in Roles \cup {"admin"},
        p \in {<<>>, PwP},
        m \in {<<>>, <<"1">>},
        k \in {<<>>, KeyK, <<"j">>},
        t \in {<<>>, <<"t">>}}

LoginForm(username, password, code) ==
    [op |-> "login", username |-> username, password |-> password,
     otp_code |-> code]

AllLoginForms ==
    {LoginForm(u, p, c) :
        u \in {<<"x">>, <<"y">>, <<"x", " ">>},
        p \in {PwP, <<"q">>},
        c \in {<<>>} \cup {<<k>> : k \in 0..(CodeMod - 1)}}

(***************************************************************************)
(* Queries                                                                 *)
(***************************************************************************)
\* User.query.filter_by(username=username).first() is not None
UsernameTaken(username) == \E u \in users : u.username = username

\* User.query.filter_by(email=email).first() is not None
EmailTaken(email) == \E u \in users : u.email = email

\* the result of a user query that finds no row
NoUser == [id |-> 0]

\* User.query.filter_by(username=username).first()
FindUser(username) ==
    IF UsernameTaken(username)
    THEN CHOOSE u \in users : u.username = username
    ELSE NoUser

\* User.query.get(user_id)
GetUser(id) ==
    IF \E u \in users : u.id = id
    THEN CHOOSE u \in users : u.id = id
    ELSE NoUser

\* the lookup without the is_used filter
FindCreatorInviteAny(email, key) ==
    LET found == {i \in cinvites : i.domain_email = email
                      /\ i.invite_code = key}
    IN  IF found = {} THEN 0 ELSE (CHOOSE i \in found : TRUE).id

\* CreatorInvite.query.filter_by(domain_email, invite_code, is_used=False).first():
\* the id of the row found, 0 when there is none
FindCreatorInvite(email, key) ==
    LET found == {i \in cinvites : i.domain_email = email
                      /\ i.invite_code = key /\ ~i.is_used}
    IN  IF found = {} THEN 0 ELSE (CHOOSE i \in found : TRUE).id

\* JournalistInvite.query.filter_by(token, is_used=False).first()
FindJournalistInvite(token) ==
    LET found == {i \in jinvites : i.token = token /\ ~i.is_used}
    IN  IF found = {} THEN 0 ELSE (CHOOSE i \in found : TRUE).id

\* current_user(): the user of the session, None without one
CurrentUser(c) == IF session[c] # 0 THEN GetUser(session[c]) ELSE NoUser

(***************************************************************************)
(* Initial state: an empty user table, the creator invites handed out by   *)
(* the operators of the site, no session                                   *)
(***************************************************************************)
Init ==
    /\ users = {}
    /\ cinvites = {[id |-> 1, domain_email |-> EmailUX, invite_code |-> KeyK,
                    is_used |-> FALSE],
                   [id |-> 2, domain_email |-> EmailUXY, invite_code |-> KeyK,
                    is_used |-> FALSE]}
    /\ jinvites = {}
    /\ session = [c \in Clients |-> 0]
    /\ req = [c \in Clients |-> NoReq]
    /\ pc = [c \in Clients |-> "idle"]
    /\ frame = [c \in Clients |-> NoFrame]
    /\ resp = NoResponse
    /\ now = 1

(***************************************************************************)
(* A client sends a request                                                *)
(***************************************************************************)
\* the server accepts a request of client c and hands it to its handler.
\* Requests are accepted one at a time: accepting touches no table, so the
\* order of two arrivals shows only in the order of the handlers' first steps.
Submit(c, forms) ==
    /\ pc[c] = "idle"
    /\ \A d \in Clients : pc[d] # "recv"
    /\ \E f \in forms :
          req' = [req EXCEPT ![c] = f]
    /\ pc' = [pc EXCEPT ![c] = "recv"]
    /\ resp' = NoResponse
    /\ UNCHANGED <<users, cinvites, jinvites, session, frame, now>>

\* response r as client c receives it
To(c, r) == [flash |-> r.flash, to |-> r.to, client |-> c]

\* the handler returns response r: the request is over
Return(c, r) ==
    /\ resp' = To(c, r)
    /\ req' = [req EXCEPT ![c] = NoReq]
    /\ pc' = [pc EXCEPT ![c] = "idle"]
    /\ frame' = [frame EXCEPT ![c] = NoFrame]

(***************************************************************************)
(* register, POST                                                          *)
(***************************************************************************)
\* the form fields as register reads them
FormUsername(f) == Strip(f.username)
FormEmail(f) == Strip(f.email)
FormCreatorKey(f) == Strip(f.creator_key)
FormInviteToken(f) == Strip(f.journalist_token)

\* the piece after the first "@" instead of the last piece
CreatorDomainFirst(email) == Split(email)[2]

\* the part of the e-mail the creator's username must equal
CreatorDomain(email) == LastOf(Split(email))

\* username and role present
FieldsPresent(f) == Truthy(FormUsername(f)) /\ f.role \in Roles

\* the password is validated before the username is looked up
RegisterRecvPasswordFirst(c, secrets) ==
    /\ pc[c] = "recv"
    /\ req[c].op = "register"
    /\ UNCHANGED <<users, cinvites, jinvites, session, now>>
    /\ IF ~FieldsPresent(req[c])
       THEN Return(c, InvalidRoleOrMissingFields)
       ELSE IF ~Truthy(req[c].password)
       THEN Return(c, PasswordRequired)
       ELSE IF UsernameTaken(FormUsername(req[c]))
       THEN Return(c, DuplicateUsername)
       ELSE /\ \E s \in secrets :
                  frame' = [frame EXCEPT ![c] = [otp_secret |-> s, invite |-> 0]]
            /\ pc' = [pc EXCEPT ![c] = "email"]
            /\ resp' = NoResponse
            /\ UNCHANGED req

\* username and role validation, then the username lookup; the secret of the
\* new user is one of secrets
RegisterRecv(c, secrets) ==
    /\ pc[c] = "recv"
    /\ req[c].op = "register"
    /\ UNCHANGED <<users, cinvites, jinvites, session, now>>
    /\ IF ~FieldsPresent(req[c])
       THEN Return(c, InvalidRoleOrMissingFields)
       ELSE IF UsernameTaken(FormUsername(req[c]))
       THEN Return(c, DuplicateUsername)
       ELSE /\ \E s \in secrets :
                  frame' = [frame EXCEPT ![c] = [otp_secret |-> s, invite |-> 0]]
            /\ pc' = [pc EXCEPT ![c] = "email"]
            /\ resp' = NoResponse
            /\ UNCHANGED req

\* password validation, then the e-mail lookup
RegisterEmail(c) ==
    /\ pc[c] = "email"
    /\ UNCHANGED <<users, cinvites, jinvites, session, now>>
    /\ IF ~Truthy(req[c].password)
       THEN Return(c, PasswordRequired)
       ELSE IF Truthy(FormEmail(req[c])) /\ EmailTaken(FormEmail(req[c]))
       THEN Return(c, DuplicateEmail)
       ELSE /\ pc' = [pc EXCEPT ![c] = "gate"]
            /\ resp' = NoResponse
            /\ UNCHANGED <<req, frame>>

\* invite.is_used = True on the row the handler holds
MarkUsed(invites, id) ==
    {IF i.id = id THEN [i EXCEPT !.is_used = TRUE] ELSE i : i \in invites}

\* the gate lets the attempt through, holding invite row id (0: no invite)
Admit(id) == [invite |-> id]

\* the invite is looked up before the domain is compared
CreatorGateInviteFirst(f) ==
    IF ~Truthy(FormEmail(f)) \/ ~Truthy(FormCreatorKey(f))
    THEN CreatorFieldsRequired
    ELSE IF FindCreatorInvite(FormEmail(f), FormCreatorKey(f)) = 0
    THEN InvalidOrUsedCreatorInvite
    ELSE IF FormUsername(f) # CreatorDomain(FormEmail(f))
    THEN DomainMismatch
    ELSE Admit(FindCreatorInvite(FormEmail(f), FormCreatorKey(f)))

\* the outcome of the creator gate: a rejection, or the invite found
CreatorGate(f) ==
    IF ~Truthy(FormEmail(f)) \/ ~Truthy(FormCreatorKey(f))
    THEN CreatorFieldsRequired
    ELSE IF FormUsername(f) # CreatorDomain(FormEmail(f))
    THEN DomainMismatch
    ELSE IF FindCreatorInvite(FormEmail(f), FormCreatorKey(f)) = 0
    THEN InvalidOrUsedCreatorInvite
    ELSE Admit(FindCreatorInvite(FormEmail(f), FormCreatorKey(f)))

\* a journalist is let through without an invite
JournalistGateOpen(f) == Admit(0)

\* the outcome of the journalist gate
JournalistGate(f) ==
    IF FindJournalistInvite(FormInviteToken(f)) = 0
    THEN InvalidOrUsedJournalistInvite
    ELSE Admit(FindJournalistInvite(FormInviteToken(f)))

\* the role gate: a rejection, or the invite to consume
RoleGate(f) ==
    IF f.role = "creator" THEN CreatorGate(f)
    ELSE IF f.role = "journalist" THEN JournalistGate(f)
    ELSE Admit(0)

\* the creator invite is marked used as soon as it is looked up
RegisterGateMarksFirst(c) ==
    /\ pc[c] = "gate"
    /\ UNCHANGED <<users, jinvites, session, now>>
    /\ cinvites' = IF req[c].role = "creator"
                   THEN MarkUsed(cinvites, FindCreatorInvite(FormEmail(req[c]),
                                                            FormCreatorKey(req[c])))
                   ELSE cinvites
    /\ IF RoleGate(req[c]) \in RegisterRejections
       THEN Return(c, RoleGate(req[c]))
       ELSE /\ frame' = [frame EXCEPT ![c].invite = RoleGate(req[c]).invite]
            /\ pc' = [pc EXCEPT ![c] = "commit"]
            /\ resp' = NoResponse
            /\ UNCHANGED req

RegisterGate(c) ==
    /\ pc[c] = "gate"
    /\ UNCHANGED <<users, cinvites, jinvites, session, now>>
    /\ IF RoleGate(req[c]) \in RegisterRejections
       THEN Return(c, RoleGate(req[c]))
       ELSE /\ frame' = [frame EXCEPT ![c].invite = RoleGate(req[c]).invite]
            /\ pc' = [pc EXCEPT ![c] = "commit"]
            /\ resp' = NoResponse
            /\ UNCHANGED req

\* the User row register adds for client c
NewUser(c) ==
    [id |-> Cardinality(users) + 1,
     username |-> FormUsername(req[c]),
     email |-> OrNone(FormEmail(req[c])),
     role |-> req[c].role,
     password_hash |-> GeneratePasswordHash(req[c].password),
     otp_secret |-> frame[c].otp_secret,
     is_moderator |-> Truthy(req[c].is_moderator)]

\* only the username is unique
UniqueViolationUsernameOnly(u) == \E v \in users : v.username = u.username

\* the unique constraints of User reject row u
UniqueViolation(u) ==
    \E v \in users : v.username = u.username
                        \/ (u.email # None /\ v.email = u.email)

\* the invite is committed on its own, before the user row is inserted
RegisterCommitInviteFirst(c) ==
    /\ pc[c] = "commit"
    /\ UNCHANGED now
    /\ cinvites' = IF req[c].role = "creator"
                   THEN MarkUsed(cinvites, frame[c].invite)
                   ELSE cinvites
    /\ jinvites' = IF req[c].role = "journalist"
                   THEN MarkUsed(jinvites, frame[c].invite)
                   ELSE jinvites
    /\ IF UniqueViolation(NewUser(c))
       THEN /\ Return(c, InternalServerError)
            /\ UNCHANGED <<users, session>>
       ELSE /\ users' = users \cup {NewUser(c)}
            /\ session' = [session EXCEPT ![c] = NewUser(c).id]
            /\ Return(c, RegistrationSuccessful)

\* a session that already holds a user id keeps it
RegisterCommitKeepsSession(c) ==
    /\ pc[c] = "commit"
    /\ UNCHANGED now
    /\ IF UniqueViolation(NewUser(c))
       THEN /\ Return(c, InternalServerError)
            /\ UNCHANGED <<users, cinvites, jinvites, session>>
       ELSE /\ users' = users \cup {NewUser(c)}
            /\ cinvites' = IF req[c].role = "creator"
                           THEN MarkUsed(cinvites, frame[c].invite)
                           ELSE cinvites
            /\ jinvites' = IF req[c].role = "journalist"
                           THEN MarkUsed(jinvites, frame[c].invite)
                           ELSE jinvites
            /\ session' = IF session[c] = 0
                          THEN [session EXCEPT ![c] = NewUser(c).id]
                          ELSE session
            /\ Return(c, RegistrationSuccessful)

\* db.session.commit() of the new user and the consumed invite, one
\* transaction; an IntegrityError leaves the handler uncaught
RegisterCommit(c) ==
    /\ pc[c] = "commit"
    /\ UNCHANGED now
    /\ IF UniqueViolation(NewUser(c))
       THEN /\ Return(c, InternalServerError)
            /\ UNCHANGED <<users, cinvites, jinvites, session>>
       ELSE /\ users' = users \cup {NewUser(c)}
            /\ cinvites' = IF req[c].role = "creator"
                           THEN MarkUsed(cinvites, frame[c].invite)
                           ELSE cinvites
            /\ jinvites' = IF req[c].role = "journalist"
                           THEN MarkUsed(jinvites, frame[c].invite)
                           ELSE jinvites
            /\ session' = [session EXCEPT ![c] = NewUser(c).id]
            /\ Return(c, RegistrationSuccessful)

(***************************************************************************)
(* login, POST; logout                                                     *)
(***************************************************************************)
\* only the code of the current time step is accepted
LoginOutcomeNoWindow(f) ==
    LET user == FindUser(Strip(f.username))
    IN  IF user = NoUser THEN UserNotFound
        ELSE IF ~CheckPasswordHash(user.password_hash, f.password)
        THEN InvalidCredentials
        ELSE IF ~Truthy(f.otp_code)
                  \/ ~TotpVerify(user.otp_secret, f.otp_code, now, 0)
        THEN InvalidOrMissingCode
        ELSE LoggedIn

\* the one-time code is verified before the password
LoginOutcomeCodeFirst(f) ==
    LET user == FindUser(Strip(f.username))
    IN  IF user = NoUser THEN UserNotFound
        ELSE IF ~Truthy(f.otp_code)
                  \/ ~TotpVerify(user.otp_secret, f.otp_code, now, 1)
        THEN InvalidOrMissingCode
        ELSE IF ~CheckPasswordHash(user.password_hash, f.password)
        THEN InvalidCredentials
        ELSE LoggedIn

\* the response of login to form f at the current time step
LoginOutcome(f) ==
    LET user == FindUser(Strip(f.username))
    IN  IF user = NoUser THEN UserNotFound
        ELSE IF ~CheckPasswordHash(user.password_hash, f.password)
        THEN InvalidCredentials
        ELSE IF ~Truthy(f.otp_code)
                  \/ ~TotpVerify(user.otp_secret, f.otp_code, now, 1)
        THEN InvalidOrMissingCode
        ELSE LoggedIn

\* a successful login provisions a new one-time-code secret for the user
LoginRotatesSecret(c) ==
    /\ pc[c] = "recv"
    /\ req[c].op = "login"
    /\ session' = IF LoginOutcome(req[c]) = LoggedIn
                  THEN [session EXCEPT ![c] = FindUser(Strip(req[c].username)).id]
                  ELSE session
    /\ users' = IF LoginOutcome(req[c]) = LoggedIn
                THEN {IF u.username = Strip(req[c].username)
                      THEN [u EXCEPT !.otp_secret = 3 - u.otp_secret]
                      ELSE u : u \in users}
                ELSE users
    /\ Return(c, LoginOutcome(req[c]))
    /\ UNCHANGED <<cinvites, jinvites, now>>

\* a failed login drops the user id of the session
LoginClearsOnFailure(c) ==
    /\ pc[c] = "recv"
    /\ req[c].op = "login"
    /\ session' = IF LoginOutcome(req[c]) = LoggedIn
                  THEN [session EXCEPT ![c] = FindUser(Strip(req[c].username)).id]
                  ELSE [session EXCEPT ![c] = 0]
    /\ Return(c, LoginOutcome(req[c]))
    /\ UNCHANGED <<users, cinvites, jinvites, now>>

Login(c) ==
    /\ pc[c] = "recv"
    /\ req[c].op = "login"
    /\ session' = IF LoginOutcome(req[c]) = LoggedIn
                  THEN [session EXCEPT ![c] = FindUser(Strip(req[c].username)).id]
                  ELSE session
    /\ Return(c, LoginOutcome(req[c]))
    /\ UNCHANGED <<users, cinvites, jinvites, now>>

\* logout answers without dropping the user id of the session
LogoutKeepsSession(c) ==
    /\ pc[c] = "recv"
    /\ req[c].op = "logout"
    /\ Return(c, LoggedOut)
    /\ UNCHANGED <<users, cinvites, jinvites, session, now>>

Logout(c) ==
    /\ pc[c] = "recv"
    /\ req[c].op = "logout"
    /\ session' = [session EXCEPT ![c] = 0]
    /\ Return(c, LoggedOut)
    /\ UNCHANGED <<users, cinvites, jinvites, now>>

(***************************************************************************)
(* The access gates and the operations behind them                         *)
(***************************************************************************)
\* login_required lets every request through
LoginRequiredAlways(c) == TRUE

\* login_required lets the request of client c through
LoginRequired(c) == CurrentUser(c) # NoUser

\* moderator_required lets every logged-in user through
ModeratorRequiredAnyUser(c) == CurrentUser(c) # NoUser

\* moderator_required lets the request of client c through
ModeratorRequiredPasses(c) ==
    ~(CurrentUser(c) = NoUser \/ ~CurrentUser(c).is_moderator)

\* social_feed behind login_required
SocialFeed(c) ==
    /\ pc[c] = "recv"
    /\ req[c].op = "social_feed"
    /\ IF ~LoginRequired(c)
       THEN Return(c, PleaseLogIn)
       ELSE Return(c, Render("social_feed.html"))
    /\ UNCHANGED <<users, cinvites, jinvites, session, now>>

\* the JournalistInvite row a POST adds
NewJournalistInvite(email, token) ==
    [id |-> Cardinality(jinvites) + 1, contact_email |-> OrNone(Strip(email)),
     token |-> token, is_used |-> FALSE]

\* create_journalist_invite behind moderator_required
CreateJournalistInvite(c) ==
    /\ pc[c] = "recv"
    /\ req[c].op = "create_journalist_invite"
    /\ UNCHANGED <<users, cinvites, session, now>>
    /\ IF ~ModeratorRequiredPasses(c)
       THEN /\ Return(c, ModeratorRequired)
            /\ UNCHANGED jinvites
       ELSE IF req[c].method = "POST"
       THEN /\ \E t \in Tokens :
                  /\ \A i \in jinvites : i.token # t
                  /\ jinvites' = jinvites \cup
                         {NewJournalistInvite(req[c].contact_email, t)}
            /\ Return(c, InviteCreated)
       ELSE /\ Return(c, Render("create_journalist_invite.html"))
            /\ UNCHANGED jinvites

\* the one-time-code clock moves to the next 30-second step
Tick ==
    /\ now < MaxStep
    /\ now' = now + 1
    /\ resp' = NoResponse
    /\ UNCHANGED <<users, cinvites, jinvites, session, req, pc, frame>>

(***************************************************************************)
(* Requests the clients send                                               *)
(***************************************************************************)
LogoutRequest == [op |-> "logout"]
SocialFeedRequest == [op |-> "social_feed"]

InviteRequests ==
    {[op |-> "create_journalist_invite", method |-> m, contact_email |-> e] :
        m \in {"GET", "POST"}, e \in {<<>>, <<" ">>}}

\* a moderator sends no POST once MaxInvites invites exist
InviteRequestsNow ==
    {r \in InviteRequests :
        r.method = "POST" => Cardinality(jinvites) < MaxInvites}

\* register
Register(c, secrets) ==
    \/ RegisterRecv(c, secrets)
    \/ RegisterEmail(c)
    \/ RegisterGate(c)
    \/ RegisterCommit(c)

(***************************************************************************)
(* Spec: two clients, every operation                                      *)
(***************************************************************************)
NameX == <<"x">>
NameY == <<"y">>
NameZ == <<"z">>
TokenT == <<"t">>

\* registration forms of readers, creators and journalists
CoreRegisterForms ==
    {RegisterForm(u, <<>>, "reader", PwP, m, <<>>, <<>>) :
        u \in {NameX, NameY}, m \in {<<>>, <<"1">>}}
    \cup {RegisterForm(u, EmailUX, r, PwP, <<>>, KeyK, <<>>) :
        u \in {NameX, NameY}, r \in {"reader", "creator"}}
    \cup {RegisterForm(NameX, <<>>, "creator", PwP, <<>>, KeyK, <<>>)}
    \cup {RegisterForm(u, <<>>, "journalist", PwP, <<>>, <<>>, TokenT) :
        u \in {NameY, NameZ}}
    \cup {RegisterForm(<<>>, <<>>, "reader", PwP, <<>>, <<>>, <<>>),
          RegisterForm(NameY, <<>>, "admin", PwP, <<>>, <<>>, <<>>),
          RegisterForm(NameY, <<>>, "reader", <<>>, <<>>, <<>>, <<>>)}

CoreLoginForms ==
    {LoginForm(NameX, PwP, <<>>), LoginForm(NameX, PwP, <<Totp(1, 1)>>),
     LoginForm(NameX, <<"q">>, <<Totp(1, 1)>>)}

CoreRequests ==
    CoreRegisterForms \cup CoreLoginForms
        \cup {r \in InviteRequestsNow : r.contact_email = <<>>}
        \cup {LogoutRequest, SocialFeedRequest}

Next ==
    \/ \E c \in Clients : Submit(c, CoreRequests)
    \/ \E c \in Clients : Register(c, OneSecret)
    \/ \E c \in Clients : Login(c)
    \/ \E c \in Clients : Logout(c)
    \/ \E c \in Clients : SocialFeed(c)
    \/ \E c \in Clients : CreateJournalistInvite(c)

Spec == Init /\ [][Next]_vars

(***************************************************************************)
(* SpecForms: one client at a time, every combination of the form fields   *)
(***************************************************************************)
FormRequests == AllRegisterForms \cup InviteRequestsNow

NextForms ==
    \/ Submit("c1", FormRequests)
    \/ Register("c1", OneSecret)
    \/ CreateJournalistInvite("c1")

SpecForms == Init /\ [][NextForms]_vars

(***************************************************************************)
(* SpecLogin: registration, login and logout while the clock advances      *)
(***************************************************************************)
LoginRequests ==
    {RegisterForm(u, <<>>, "reader", PwP, <<>>, <<>>, <<>>) : u \in {NameX, NameY}}
        \cup AllLoginForms \cup {LogoutRequest}

NextLogin ==
    \/ Submit("c1", LoginRequests)
    \/ Register("c1", Secrets)
    \/ Login("c1")
    \/ Logout("c1")
    \/ Tick

SpecLogin == Init /\ [][NextLogin]_vars

(***************************************************************************)
(* SpecAll: one client, every operation, two secrets, the clock advancing  *)
(***************************************************************************)
AllRequests == CoreRequests \cup AllLoginForms

NextAll ==
    \/ Submit("c1", AllRequests)
    \/ Register("c1", Secrets)
    \/ Login("c1")
    \/ Logout("c1")
    \/ SocialFeed("c1")
    \/ CreateJournalistInvite("c1")
    \/ Tick

SpecAll == Init /\ [][NextAll]_vars

(***************************************************************************)
(* Properties                                                              *)
(***************************************************************************)
\* the handler serving client c returns in this step
Ends(c) == pc[c] # "idle" /\ pc'[c] = "idle"

\* the handler serving client c takes this step
Steps(c) == pc[c] # "idle" /\ pc'[c] # pc[c]

\* the creator invite the registration form f presents
PresentedCreatorInvites(f) ==
    {i \in cinvites : i.domain_email = Strip(f.email)
                         /\ i.invite_code = Strip(f.creator_key)}

\* the journalist invite the registration form f presents
PresentedJournalistInvites(f) ==
    {i \in jinvites : i.token = Strip(f.journalist_token)}

\* C1: of two concurrent creator registrations presenting the same
\* (email, invite code) pair that both passed their read checks, the one that
\* commits after the other has redeemed the invite is rejected with
\* InvalidOrUsedInvite and creates no user.
C1_LoserRejectedWithUsedInvite ==
    [][\A c \in Clients :
          (/\ pc[c] = "commit"
           /\ req[c].role = "creator"
           /\ \E i \in PresentedCreatorInvites(req[c]) : i.is_used
           /\ Ends(c))
          => /\ resp' = To(c, InvalidOrUsedCreatorInvite)
             /\ users' = users]_vars

\* C2: a journalist registration with a username of its own that reaches its
\* commit after another registration has redeemed the token it presents is
\* rejected with InvalidOrUsedInvite and creates no user.
C2_TokenRedeemedOnce ==
    [][\A c \in Clients :
          (/\ pc[c] = "commit"
           /\ req[c].role = "journalist"
           /\ \A u \in users : u.username # Strip(req[c].username)
           /\ \E i \in PresentedJournalistInvites(req[c]) : i.is_used
           /\ Ends(c))
          => /\ resp' = To(c, InvalidOrUsedJournalistInvite)
             /\ users' = users]_vars

\* C3: a register call that ends with one of its rejections leaves the User
\* rows, every invite and every session user id as they were before the step.
C3_RejectionWritesNothing ==
    [][\A c \in Clients :
          (/\ req[c].op = "register"
           /\ Ends(c)
           /\ \E r \in RegisterRejections : resp' = To(c, r))
          => /\ users' = users
             /\ cinvites' = cinvites
             /\ jinvites' = jinvites
             /\ session' = session]_vars

\* a rejection for a used creator invite, with users in the store
C3_Witness ==
    /\ resp.flash = InvalidOrUsedCreatorInvite.flash
    /\ users # {}
    /\ \E i \in cinvites : i.is_used

\* every used creator invite has the creator registered with its e-mail and
\* every creator has a used invite; there are no more used journalist invites
\* than journalists, and no journalist without a used journalist invite
C4_State ==
    /\ \A i \in cinvites :
          i.is_used <=> \E u \in users : u.role = "creator"
                                          /\ u.email = i.domain_email
    /\ Cardinality({i \in jinvites : i.is_used})
          <= Cardinality({u \in users : u.role = "journalist"})
    /\ (\E u \in users : u.role = "journalist")
          => \E i \in jinvites : i.is_used

\* C4: an invite becomes used in the very step that adds the user of the
\* registration redeeming it, a creator or journalist is added only in a step
\* after which the invite its registration presented is used, and in every
\* state used invites and the users created from them correspond.
C4_InviteAtomicWithUser ==
    [][/\ \A i \in cinvites :
             (~i.is_used /\ [i EXCEPT !.is_used = TRUE] \in cinvites')
             => \E u \in users' \ users : u.role = "creator"
                                            /\ u.email = i.domain_email
       /\ \A i \in jinvites :
             (~i.is_used /\ [i EXCEPT !.is_used = TRUE] \in jinvites')
             => \E u \in users' \ users : u.role = "journalist"
       /\ \A u \in users' \ users :
             /\ u.role = "creator"
                => \E i \in cinvites' : i.domain_email = u.email /\ i.is_used
             /\ u.role = "journalist"
                => \E c \in Clients :
                      /\ Ends(c)
                      /\ u.username = Strip(req[c].username)
                      /\ \E i \in jinvites' :
                            i.token = Strip(req[c].journalist_token) /\ i.is_used
       /\ C4_State']_vars

\* a creator and a journalist are registered and their invites are used
C4_Witness ==
    /\ \E i \in cinvites : i.is_used
    /\ \E i \in jinvites : i.is_used
    /\ \E u \in users : u.role = "creator"
    /\ \E u \in users : u.role = "journalist"

\* C5 as stated: a register call whose username is already in the store is
\* rejected with DuplicateUsername whatever its other fields are.
C5_DuplicateUsernameAlways ==
    [][\A c \in Clients :
          (/\ pc[c] = "recv"
           /\ req[c].op = "register"
           /\ \E u \in users : u.username = Strip(req[c].username)
           /\ Steps(c))
          => resp' = To(c, DuplicateUsername)]_vars

\* C5 amended: a register call whose username is already in the store and
\* whose role is reader, creator or journalist is rejected with
\* DuplicateUsername whatever its other fields are; with any other role it is
\* rejected with InvalidRoleOrMissingFields.
C5_DuplicateUsernameForValidRole ==
    [][\A c \in Clients :
          (/\ pc[c] = "recv"
           /\ req[c].op = "register"
           /\ \E u \in users : u.username = Strip(req[c].username)
           /\ Steps(c))
          => resp' = To(c, IF req[c].role \in {"reader", "creator", "journalist"}
                          THEN DuplicateUsername
                          ELSE InvalidRoleOrMissingFields)]_vars

\* a duplicate username has been rejected
C5_Witness ==
    /\ resp = To("c1", DuplicateUsername)
    /\ users # {}

\* C6: a reader registration that ends while its non-empty username is not in
\* the store, its password is non-empty and its e-mail is absent or owned by
\* no user ends in Success: exactly one User, a reader with that username, is
\* added and the session of the client holds the id of that user.
C6_ReaderRegistrationSucceeds ==
    [][\A c \in Clients :
          (/\ req[c].op = "register"
           /\ req[c].role = "reader"
           /\ Strip(req[c].username) # <<>>
           /\ \A u \in users : u.username # Strip(req[c].username)
           /\ req[c].password # <<>>
           /\ \/ Strip(req[c].email) = <<>>
              \/ \A u \in users : u.email # Strip(req[c].email)
           /\ Ends(c))
          => /\ resp' = To(c, RegistrationSuccessful)
             /\ \E u \in users' \ users :
                   /\ users' = users \cup {u}
                   /\ u.role = "reader"
                   /\ u.username = Strip(req[c].username)
                   /\ session'[c] = u.id]_vars

\* a second user, a reader, has just registered from a client whose session
\* now holds the new id
C6_Witness ==
    \E c \in Clients :
        /\ resp = To(c, RegistrationSuccessful)
        /\ Cardinality(users) = 2
        /\ session[c] = 2
        /\ \E u \in users : u.id = 2 /\ u.role = "reader"

\* the text of s after its last "@" (all of s when it has none)
AfterLastAt(s) ==
    IF \A k \in 1..Len(s) : s[k] # "@"
    THEN s
    ELSE LET k == CHOOSE k \in 1..Len(s) :
                      s[k] = "@" /\ \A j \in (k + 1)..Len(s) : s[j] # "@"
         IN  SubSeq(s, k + 1, Len(s))

\* C7 as stated: a creator registration that reaches the domain check is
\* rejected for domain mismatch exactly when the username differs from
\* email.split("@")[1].
C7_DomainIsSecondPiece ==
    [][\A c \in Clients :
          (/\ pc[c] = "gate"
           /\ req[c].role = "creator"
           /\ Strip(req[c].email) # <<>>
           /\ Strip(req[c].creator_key) # <<>>
           /\ Steps(c))
          => (resp' = To(c, DomainMismatch)
                <=> Strip(req[c].username) # Split(Strip(req[c].email))[2])]_vars

\* C7 amended: a creator registration that reaches the domain check is
\* rejected for domain mismatch exactly when the username differs from
\* email.split("@")[-1], the text after the last "@".
C7_DomainIsLastPiece ==
    [][\A c \in Clients :
          (/\ pc[c] = "gate"
           /\ req[c].role = "creator"
           /\ Strip(req[c].email) # <<>>
           /\ Strip(req[c].creator_key) # <<>>
           /\ Steps(c))
          => (resp' = To(c, DomainMismatch)
                <=> Strip(req[c].username) # AfterLastAt(Strip(req[c].email)))]_vars

\* a creator registered with an e-mail that has two "@"
C7_Witness ==
    \E u \in users : u.role = "creator" /\ u.email = EmailUXY

\* C8: for an existing user and the correct password, login succeeds and sets
\* the session to that user exactly when the submitted code is the code of
\* the current time step or of the step before or after it; otherwise it
\* fails with InvalidOrMissingCode and the session is unchanged.
C8_LoginCodeWindow ==
    [][\A c \in Clients :
          \A u \in users :
             (/\ pc[c] = "recv"
              /\ req[c].op = "login"
              /\ u.username = Strip(req[c].username)
              /\ u.password_hash = GeneratePasswordHash(req[c].password)
              /\ Steps(c))
             => IF req[c].otp_code \in {<<Totp(u.otp_secret, now - 1)>>,
                                        <<Totp(u.otp_secret, now)>>,
                                        <<Totp(u.otp_secret, now + 1)>>}
                THEN resp' = To(c, LoggedIn) /\ session'[c] = u.id
                ELSE resp' = To(c, InvalidOrMissingCode)
                        /\ session' = session]_vars

\* a user whose secret is 2 has logged in after the clock advanced
C8_Witness ==
    /\ resp = To("c1", LoggedIn)
    /\ now > 1
    /\ \E u \in users : u.id = session["c1"] /\ u.otp_secret = 2

\* C9: moderator_required answers a request without a valid session
\* differently from the Forbidden response it gives a user who is no
\* moderator.
C9_GateDistinguishesFailures ==
    [][\A c \in Clients :
          (/\ pc[c] = "recv"
           /\ req[c].op = "create_journalist_invite"
           /\ Steps(c))
          => /\ (\E u \in users : u.id = session[c] /\ ~u.is_moderator)
                => resp' = To(c, ModeratorRequired)
             /\ (\A u \in users : u.id # session[c])
                => resp' # To(c, ModeratorRequired)]_vars

\* C10: a register commit that violates a unique constraint of User is
\* surfaced as DuplicateUsername, DuplicateEmail or InvalidOrUsedInvite.
C10_ConstraintViolationHandled ==
    [][\A c \in Clients :
          (/\ pc[c] = "commit"
           /\ \E u \in users :
                 \/ u.username = Strip(req[c].username)
                 \/ u.email = Strip(req[c].email)
           /\ Ends(c))
          => resp' \in {To(c, DuplicateUsername), To(c, DuplicateEmail),
                        To(c, InvalidOrUsedCreatorInvite),
                        To(c, InvalidOrUsedJournalistInvite)}]_vars

\* C11: in every reachable state no two User rows have the same username and
\* no two User rows have the same non-null email.
C11_UniqueUsernameAndEmail ==
    \A u \in users : \A v \in users :
        u.id # v.id => /\ u.username # v.username
                       /\ (u.email # <<"None">> => u.email # v.email)

\* two users are stored, one of them with an e-mail, after a registration
\* failed on a unique constraint
C11_Witness ==
    /\ resp.to = InternalServerError.to
    /\ Cardinality(users) = 2
    /\ \E u \in users : u.email = EmailUX

\* C12: every step of register, login, logout, invite creation and the gated
\* operations keeps every existing User row with the role and the
\* one-time-code secret it was created with.
C12_RoleAndSecretFixed ==
    [][\A u \in users :
          \E v \in users' : /\ v.id = u.id
                            /\ v.role = u.role
                            /\ v.otp_secret = u.otp_secret]_vars

\* a user with secret 2 and a creator exist, and a login has just succeeded
C12_Witness ==
    /\ resp = To("c1", LoggedIn)
    /\ \E u \in users : u.otp_secret = 2
    /\ \E u \in users : u.role = "creator"

\* C13: the user id of a session changes only when a register of its client
\* succeeds (to the id of the new user), when a login of its client succeeds
\* (to the id of the user logged in) or when its client logs out (to none);
\* each of the three sets it so, and every other step leaves it unchanged.
C13_SessionChangesOnlyThreeWays ==
    [][\A c \in Clients :
          /\ session'[c] # session[c]
             => \/ /\ req[c].op = "register"
                   /\ resp' = To(c, RegistrationSuccessful)
                \/ /\ req[c].op = "login"
                   /\ resp' = To(c, LoggedIn)
                \/ /\ req[c].op = "logout"
                   /\ resp' = To(c, LoggedOut)
          /\ (req[c].op = "register" /\ resp' = To(c, RegistrationSuccessful))
             => \E u \in users' \ users : session'[c] = u.id
          /\ (req[c].op = "login" /\ resp' = To(c, LoggedIn))
             => \E u \in users : /\ u.username = Strip(req[c].username)
                                 /\ session'[c] = u.id
          /\ (req[c].op = "logout" /\ resp' = To(c, LoggedOut))
             => session'[c] = 0]_vars

\* a login has just failed for a client whose session holds a user id
C13_Witness ==
    \E c \in Clients :
        /\ resp = To(c, InvalidCredentials)
        /\ session[c] # 0

\* C14: a request to an operation behind login_required or moderator_required
\* leaves the User rows, the creator invites, the journalist invites already
\* stored and the user id of every session unchanged, whether the gate admits
\* it or not; the wrapped handler answers (and, for a POST, adds an invite)
\* only when the session resolves to a user (a moderator, for
\* moderator_required), and a rejected request changes nothing at all.
C14_GatesArePure ==
    [][\A c \in Clients :
          (pc[c] = "recv" /\ pc'[c] = "idle"
              /\ req[c].op \in {"social_feed", "create_journalist_invite"})
          => LET admitted ==
                     \E u \in users :
                        /\ u.id = session[c]
                        /\ (req[c].op = "create_journalist_invite"
                               => u.is_moderator)
             IN  /\ users' = users
                 /\ cinvites' = cinvites
                 /\ session' = session
                 /\ jinvites \subseteq jinvites'
                 /\ ~admitted
                       => /\ jinvites' = jinvites
                          /\ resp' = To(c, IF req[c].op = "social_feed"
                                           THEN PleaseLogIn
                                           ELSE ModeratorRequired)
                 /\ admitted
                       => resp' \in {To(c, Render("social_feed.html")),
                                     To(c, Render("create_journalist_invite.html")),
                                     To(c, InviteCreated)}]_vars

\* a logged-in client that is no moderator has just been turned away
C14_Witness ==
    \E c \in Clients :
        /\ resp = To(c, ModeratorRequired)
        /\ session[c] # 0

\* the answer the ordered checks of register give to form f in the current
\* store; NoResponse when every check passes
C15_FirstFailure(f) ==
    LET username == Strip(f.username)
        email == Strip(f.email)
        key == Strip(f.creator_key)
        token == Strip(f.journalist_token)
    IN  IF username = <<>> \/ f.role \notin {"reader", "creator", "journalist"}
        THEN InvalidRoleOrMissingFields
        ELSE IF \E u \in users : u.username = username
        THEN DuplicateUsername
        ELSE IF f.password = <<>>
        THEN PasswordRequired
        ELSE IF email # <<>> /\ \E u \in users : u.email = email
        THEN DuplicateEmail
        ELSE IF f.role = "creator" /\ (email = <<>> \/ key = <<>>)
        THEN CreatorFieldsRequired
        ELSE IF f.role = "creator" /\ username # AfterLastAt(email)
        THEN DomainMismatch
        ELSE IF f.role = "creator"
                /\ ~\E i \in cinvites : /\ i.domain_email = email
                                        /\ i.invite_code = key
                                        /\ ~i.is_used
        THEN InvalidOrUsedCreatorInvite
        ELSE IF f.role = "journalist"
                /\ ~\E i \in jinvites : i.token = token /\ ~i.is_used
        THEN InvalidOrUsedJournalistInvite
        ELSE NoResponse

\* C15: register checks, in this order, (1) username non-empty and role one of
\* reader, creator, journalist, (2) username not taken, (3) password
\* non-empty, (4) e-mail owned by no user, (5) the role gate, for a creator
\* e-mail and code present, then domain match, then an unused matching invite;
\* an attempt is rejected with the answer of the first check that fails, and
\* it reaches the commit only when none fails.
C15_ChecksInOrder ==
    [][\A c \in Clients :
          (req[c].op = "register" /\ pc[c] \in {"recv", "email", "gate"})
          => /\ pc'[c] = "idle" => resp' = To(c, C15_FirstFailure(req[c]))
             /\ pc'[c] = "commit" => C15_FirstFailure(req[c]) = NoResponse]_vars

\* a creator attempt without e-mail or code, which fails the domain match and
\* the invite lookup as well, was answered by the first of the three checks
C15_Witness ==
    /\ resp = To("c1", CreatorFieldsRequired)
    /\ users # {}

\* C16: a login for an existing user with a wrong password fails with
\* InvalidCredentials and leaves the session unchanged whatever one-time code
\* was sent; InvalidOrMissingCode is answered only when the password is
\* correct; and the session is set only when the password is correct and the
\* code is accepted.
C16_PasswordBeforeCode ==
    [][\A c \in Clients :
          (pc[c] = "recv" /\ req[c].op = "login" /\ pc'[c] = "idle")
          => LET named == {u \in users : u.username = Strip(req[c].username)}
                 passwordOk(u) ==
                     CheckPasswordHash(u.password_hash, req[c].password)
                 codeOk(u) ==
                     /\ req[c].otp_code # <<>>
                     /\ TotpVerify(u.otp_secret, req[c].otp_code, now, 1)
             IN  /\ \A u \in named :
                       ~passwordOk(u) => /\ resp' = To(c, InvalidCredentials)
                                         /\ session' = session
                 /\ resp' = To(c, InvalidOrMissingCode)
                       => \E u \in named : passwordOk(u) /\ ~codeOk(u)
                 /\ (resp' = To(c, LoggedIn) \/ session' # session)
                       => \E u \in named : /\ passwordOk(u) /\ codeOk(u)
                                           /\ session'[c] = u.id]_vars

\* a login with a wrong password has failed at a later time step, the client
\* still without a session
C16_Witness ==
    /\ resp = To("c1", InvalidCredentials)
    /\ session["c1"] = 0
    /\ now > 1

\* the registration of client c is for the role of an invite it presents, and
\* that invite is used
C17_PresentsUsedInvite(c) ==
    /\ req[c].op = "register"
    /\ \/ /\ req[c].role = "creator"
          /\ \E i \in PresentedCreatorInvites(req[c]) : i.is_used
       \/ /\ req[c].role = "journalist"
          /\ \E i \in PresentedJournalistInvites(req[c]) : i.is_used

\* C17 as stated: every registration that starts when the invite it presents
\* is already used is rejected with InvalidOrUsedInvite.
C17_UsedInviteAnsweredInvalidOrUsed ==
    [][\A c \in Clients :
          (pc[c] = "recv" /\ C17_PresentsUsedInvite(c) /\ pc'[c] = "idle")
          => /\ resp' \in {To(c, InvalidOrUsedCreatorInvite),
                           To(c, InvalidOrUsedJournalistInvite)}
             /\ users' = users]_vars

\* C17: a used invite stays in the store as it is, so its used flag never goes
\* back to false; and a registration that presents a used invite never gets
\* past the role gate: before the gate it creates no user and touches no
\* invite, and at the gate it is rejected, with InvalidOrUsedInvite unless the
\* domain check of a creator fails first, and creates no user.
C17_UsedInviteNeverAccepted ==
    [][/\ \A i \in cinvites : i.is_used => i \in cinvites'
       /\ \A i \in jinvites : i.is_used => i \in jinvites'
       /\ \A c \in Clients :
             /\ (req[c].op = "register" /\ pc[c] \in {"recv", "email", "gate"}
                    /\ Steps(c))
                => /\ users' = users
                   /\ cinvites' = cinvites
                   /\ jinvites' = jinvites
                   /\ pc'[c] = "commit" => pc[c] = "gate"
             /\ (pc[c] = "gate" /\ C17_PresentsUsedInvite(c) /\ Steps(c))
                => /\ pc'[c] = "idle"
                   /\ resp' \in {To(c, DomainMismatch),
                                 To(c, InvalidOrUsedCreatorInvite),
                                 To(c, InvalidOrUsedJournalistInvite)}]_vars

\* a journalist registration has just been turned away for its invite, every
\* journalist invite in the store being used
C17_Witness ==
    /\ \E c \in Clients : resp = To(c, InvalidOrUsedJournalistInvite)
    /\ jinvites # {}
    /\ \A i \in jinvites : i.is_used

\* C18: in every state, every creator has an e-mail, a username equal to the
\* part of that e-mail after its last "@", and a used CreatorInvite for that
\* e-mail in the store; and for every journalist there is a used
\* JournalistInvite in the store.
C18_InvitedRolesHoldInvites ==
    \A u \in users :
        /\ u.role = "creator"
              => /\ u.email # <<"None">>
                 /\ u.username = AfterLastAt(u.email)
                 /\ \E i \in cinvites : i.domain_email = u.email /\ i.is_used
        /\ u.role = "journalist"
              => \E i \in jinvites : i.is_used

\* a creator and a journalist are registered
C18_Witness ==
    /\ \E u \in users : u.role = "creator"
    /\ \E u \in users : u.role = "journalist"

\* C19: logout leaves the session of its client without a user id and changes
\* nothing else, so nothing at all when the session held none; a request to
\* an operation behind login_required or moderator_required from a session
\* without a user id is turned away and adds no invite; and a session without
\* a user id gets one only by a successful login or registration of its
\* client.
C19_LoggedOutStaysOut ==
    [][\A c \in Clients :
          /\ (pc[c] = "recv" /\ req[c].op = "logout" /\ pc'[c] = "idle")
             => /\ session'[c] = 0
                /\ \A d \in Clients \ {c} : session'[d] = session[d]
                /\ users' = users
                /\ cinvites' = cinvites
                /\ jinvites' = jinvites
                /\ resp' = To(c, LoggedOut)
          /\ (pc[c] = "recv" /\ pc'[c] = "idle" /\ session[c] = 0
                 /\ req[c].op \in {"social_feed", "create_journalist_invite"})
             => /\ resp' = To(c, IF req[c].op = "social_feed"
                                 THEN PleaseLogIn ELSE ModeratorRequired)
                /\ jinvites' = jinvites
                /\ session'[c] = 0
          /\ (session[c] = 0 /\ session'[c] # 0)
             => /\ req[c].op \in {"login", "register"}
                /\ resp' \in {To(c, LoggedIn), To(c, RegistrationSuccessful)}]_vars

\* users are registered, no session holds a user id any more, and a request
\* to the feed has just been turned away
C19_Witness ==
    /\ \E c \in Clients : resp = To(c, PleaseLogIn)
    /\ users # {}
    /\ \A c \in Clients : session[c] = 0

\* C20: a step adds at most one JournalistInvite, and only as the answer to a
\* POST to create_journalist_invite of a client whose session resolves, in the
\* state the request is served in, to a user with is_moderator true; the row
\* is added with is_used false; and a request to create_journalist_invite from
\* a session that resolves to no user or to a user who is no moderator adds
\* none.
C20_InvitesOnlyByModerators ==
    [][LET added == {i \in jinvites' : \A j \in jinvites : j.id # i.id}
       IN  /\ Cardinality(added) <= 1
           /\ \A i \in added :
                 /\ ~i.is_used
                 /\ \E c \in Clients :
                       /\ pc[c] = "recv"
                       /\ req[c].op = "create_journalist_invite"
                       /\ req[c].method = "POST"
                       /\ resp' = To(c, InviteCreated)
                       /\ \E u \in users : u.id = session[c] /\ u.is_moderator
           /\ \A c \in Clients :
                 (/\ pc[c] = "recv" /\ pc'[c] = "idle"
                  /\ req[c].op = "create_journalist_invite"
                  /\ ~\E u \in users : u.id = session[c] /\ u.is_moderator)
                 => /\ added = {}
                    /\ resp' = To(c, ModeratorRequired)]_vars

\* a moderator has just created an invite
C20_Witness ==
    /\ \E c \in Clients :
          /\ resp = To(c, InviteCreated)
          /\ \E u \in users : u.id = session[c] /\ u.is_moderator
    /\ \E i \in jinvites : ~i.is_used

====
